---- MODULE Spec2Model ----
(***************************************************************************)
(* Drawerly: the drawer stack manager (@drawerly/core, createDrawerManager) *)
(* and the animated container that renders it (@drawerly/vue,              *)
(* DrawerlyContainer).                                                     *)
(*                                                                         *)
(* Conventions                                                             *)
(*  - A drawer instance (options object) is a function from field names to *)
(*    values; a field the object does not carry is outside its DOMAIN.     *)
(*  - An optional value (undefined / null or a value) is a sequence of     *)
(*    length 0 or 1: Undefined == <<>>, Some(v) == <<v>>.                  *)
(*  - Arrays are sequences; indexes are 1-based and 0 stands for the -1    *)
(*    that findIndex returns when nothing matches.                         *)
(*  - Object identity is kept where the code depends on it: a manager      *)
(*    operation reports whether it executed `state = { stack: ... }`       *)
(*    (field `assigned`), and `held` follows one object the client keeps a *)
(*    reference to.                                                        *)
(*  - Field values are strings; the JavaScript booleans are "true" and     *)
(*    "false", so that a field can also hold the name of a predicate.      *)
(***************************************************************************)
EXTENDS Integers, Sequences, FiniteSets, TLC

VARIABLES state, defaults, containers, last, listeners, invocations, held

vars == <<state, defaults, containers, last, listeners, invocations, held>>

(***************************************************************************)
(* Bounds and input domains                                                *)
(***************************************************************************)
\* Longest stack the manager specification opens.
MaxStack == 3

\* Longest stack the container specification opens.
MaxRendered == 2

\* Drawer keys.  DrawerKey = string, so the empty string is a key as well.
Keys == {"", "a", "b"}

Undefined == <<>>

Some(v) == <<v>>

\* Options objects handed to open() by the container specification.
Options == {[drawerKey |-> k] : k \in Keys}
             \cup {[drawerKey |-> "a", title |-> "X"]}

\* Options objects handed to open() by the manager specification.
ManagerOptions == {[drawerKey |-> k] : k \in Keys}
             \cup {[drawerKey |-> k, title |-> "X"] : k \in Keys}

\* Longest stack the specification with plain listeners opens.
MaxListened == 2

\* Options objects handed to open() by the specification with plain listeners.
ClientOptions == {[drawerKey |-> k] : k \in Keys}

\* Updaters the specification with plain listeners uses.
ClientUpdaterKinds == {"same", "current"}

\* Predicates a closeOnEscapeKey / closeOnBackdropClick field can hold:
\*   "isTitled"  instance => instance.title !== undefined
Predicates == {"isTitled"}

\* Options objects with close policies, for the specifications of key and
\* backdrop events.
PolicyOptions ==
  {[drawerKey |-> "a"],
   [drawerKey |-> "a", closeOnEscapeKey |-> "true",
    closeOnBackdropClick |-> "false"],
   [drawerKey |-> "b", closeOnEscapeKey |-> "false",
    closeOnBackdropClick |-> "true"],
   [drawerKey |-> "b", closeOnEscapeKey |-> "isTitled",
    closeOnBackdropClick |-> "isTitled", title |-> "X"],
   [drawerKey |-> "b", closeOnEscapeKey |-> "isTitled",
    closeOnBackdropClick |-> "isTitled"],
   [drawerKey |-> "", closeOnEscapeKey |-> "true",
    closeOnBackdropClick |-> "true"]}

\* Options objects of the specification with two containers.
SharedOptions == {[drawerKey |-> k, closeOnEscapeKey |-> "true"] :
                    k \in {"a", "b"}}

\* keydown events.
KeyEvents == {[key |-> "Escape"], [key |-> "Enter"]}

\* Updaters whose result carries a drawerKey field of its own.
KeyedUpdaters == {[returns |-> "merge", patch |-> [drawerKey |-> k]] :
                    k \in Keys}

\* Default option objects (no drawerKey) a manager is created with or that
\* an updateDefaultOptions updater returns.
DefaultChoices == {[placement |-> "left", title |-> "D"]}

\* Updaters passed to updateDefaultOptions by the specification of defaults.
DefaultsUpdaters == {[returns |-> "merge", patch |-> [placement |-> "left"]],
                     [returns |-> "replace", patch |-> [title |-> "D"]]}

(***************************************************************************)
(* Pure helpers of the manager                                             *)
(***************************************************************************)
KeysOf(stack) == {stack[i].drawerKey : i \in 1..Len(stack)}

\* { ...under, ...over }: the fields of both, over's value where both have it.
Spread(under, over) ==
  [f \in (DOMAIN under) \cup (DOMAIN over) |->
     IF f \in DOMAIN over THEN over[f] ELSE under[f]]

\* The object without the listed fields (destructuring rest).
Omit(obj, fields) == [f \in (DOMAIN obj) \ fields |-> obj[f]]

\* The defaults a manager stores at construction.
InitialDefaults(defaultOptions) ==
  IF defaultOptions = Undefined
    THEN Undefined
    ELSE Some(Spread([placement |-> "right",
                      closeOnEscapeKey |-> "true",
                      closeOnBackdropClick |-> "true"],
                     defaultOptions[1]))

\* mergeOptions in which the defaults win over the options given.
mergeOptionsDefaultsWin(defs, options) ==
  IF defs = Undefined THEN options ELSE Spread(options, defs[1])

mergeOptions(defs, options) ==
  IF defs = Undefined THEN options ELSE Spread(defs[1], options)

\* Index of the first drawer whose key is `key`, 0 when there is none.
findIndex(key, stack) ==
  IF \E i \in 1..Len(stack) : stack[i].drawerKey = key
    THEN CHOOSE i \in 1..Len(stack) :
           /\ stack[i].drawerKey = key
           /\ \A j \in 1..(i - 1) : stack[j].drawerKey # key
    ELSE 0

\* moveToTop that re-appends the stored instance and drops `updated`.
moveToTopKeepsStored(stack, index, updated) ==
  LET len == Len(stack) IN
  IF index < 1 \/ index > len
    THEN stack
    ELSE Append([i \in 1..(len - 1) |->
                   IF i < index THEN stack[i] ELSE stack[i + 1]],
                stack[index])

\* moveToTop(stack, index, updated?): `updated` is Undefined or Some(instance).
moveToTop(stack, index, updated) ==
  LET len == Len(stack) IN
  IF index < 1 \/ index > len
    THEN stack
    ELSE IF index = len /\ updated = Undefined
      THEN stack
      ELSE LET result == [i \in 1..(len - 1) |->
                            IF i < index THEN stack[i] ELSE stack[i + 1]]
               target == IF updated # Undefined THEN updated[1] ELSE stack[index]
           IN  Append(result, target)

\* The operations below return the manager's next state, the number of
\* notification rounds they start, their return value, and whether they
\* assigned a new snapshot object to `state`.

\* open that appends without looking for an instance with the same key.
openAlwaysAppends(st, defs, options) ==
  [state  |-> [stack |-> Append(st.stack, mergeOptions(defs, options))],
   rounds |-> 1,
   ret    |-> Some(options.drawerKey),
   assigned |-> TRUE]

\* What an operation returns when it returns early, before any assignment.
NoCall(st) ==
  [state |-> st, rounds |-> 0, ret |-> Undefined, assigned |-> FALSE]

open(st, defs, options) ==
  LET key    == options.drawerKey
      merged == mergeOptions(defs, options)
      idx    == findIndex(key, st.stack)
  IN  IF idx = 0
        THEN [state  |-> [stack |-> Append(st.stack, merged)],
              rounds |-> 1,
              ret    |-> Some(key),
              assigned |-> TRUE]
        ELSE [state  |-> [stack |-> moveToTop(st.stack, idx, Some(merged))],
              rounds |-> 1,
              ret    |-> Some(key),
              assigned |-> TRUE]

\* !key in JavaScript: true for undefined and for the empty string.
Falsy(key) == key = Undefined \/ key[1] = ""

\* close without the early return on an empty stack.
closeNotifiesOnEmpty(st, key) ==
  LET stack == st.stack IN
  IF Falsy(key)
    THEN [state  |-> [stack |-> SubSeq(stack, 1, Len(stack) - 1)],
          rounds |-> 1,
          ret    |-> Undefined,
          assigned |-> TRUE]
    ELSE LET filtered == SelectSeq(stack, LAMBDA d : d.drawerKey # key[1])
         IN  IF Len(filtered) # Len(stack)
               THEN [state |-> [stack |-> filtered], rounds |-> 1,
                     ret |-> Undefined, assigned |-> TRUE]
               ELSE NoCall(st)

\* close(key?): `key` is Undefined or Some(k).
close(st, key) ==
  LET stack == st.stack IN
  IF Len(stack) = 0
    THEN NoCall(st)
    ELSE IF Falsy(key)
      THEN [state  |-> [stack |-> SubSeq(stack, 1, Len(stack) - 1)],
            rounds |-> 1,
            ret    |-> Undefined,
            assigned |-> TRUE]
      ELSE LET filtered == SelectSeq(stack, LAMBDA d : d.drawerKey # key[1])
           IN  IF Len(filtered) # Len(stack)
                 THEN [state |-> [stack |-> filtered], rounds |-> 1,
                       ret |-> Undefined, assigned |-> TRUE]
                 ELSE NoCall(st)

\* bringToTop that exchanges the instance with the top one.
bringToTopSwapsWithTop(st, key) ==
  LET stack == st.stack
      len   == Len(stack)
      idx   == findIndex(key, stack)
  IN  IF len < 2
        THEN NoCall(st)
        ELSE IF idx = 0 \/ idx = len
          THEN NoCall(st)
          ELSE [state  |-> [stack |-> [stack EXCEPT ![idx] = stack[len],
                                                    ![len] = stack[idx]]],
                rounds |-> 1,
                ret    |-> Undefined,
                assigned |-> TRUE]

bringToTop(st, key) ==
  LET stack == st.stack
      len   == Len(stack)
      idx   == findIndex(key, stack)
  IN  IF len < 2
        THEN NoCall(st)
        ELSE IF idx = 0 \/ idx = len
          THEN NoCall(st)
          ELSE [state  |-> [stack |-> moveToTop(stack, idx, Undefined)],
                rounds |-> 1,
                ret    |-> Undefined,
                assigned |-> TRUE]

\* closeAll that empties the current snapshot's array (stack.length = 0)
\* instead of assigning a new snapshot.
closeAllInPlace(st) ==
  IF Len(st.stack) = 0
    THEN NoCall(st)
    ELSE [state |-> [stack |-> <<>>], rounds |-> 1, ret |-> Undefined,
          assigned |-> FALSE]

closeAll(st) ==
  IF Len(st.stack) = 0
    THEN NoCall(st)
    ELSE [state |-> [stack |-> <<>>], rounds |-> 1, ret |-> Undefined,
          assigned |-> TRUE]

\* An updater passed to updateOptions is modelled by what it returns:
\*   "same"    the very object it received (x => x),
\*   "current" the stored instance object itself (e.g. getDrawerInstance(key)),
\*   "merge"   a new object { ...prev, ...patch },
\*   "replace" a new object equal to patch.
\* No patch of this set carries a drawerKey field.
Updaters == {[returns |-> "same", patch |-> [title |-> "Y"]],
             [returns |-> "current", patch |-> [title |-> "Y"]],
             [returns |-> "merge", patch |-> [title |-> "Y"]],
             [returns |-> "replace", patch |-> [title |-> "Y"]]}

UpdaterResult(updater, rest, current) ==
  CASE updater.returns = "same"    -> rest
    [] updater.returns = "current" -> current
    [] updater.returns = "merge"   -> Spread(rest, updater.patch)
    [] OTHER                       -> updater.patch

\* updateOptions that moves the updated instance to the top, as open does.
updateOptionsPromotes(st, key, updater) ==
  LET stack == st.stack
      idx   == findIndex(key, stack)
  IN  IF idx = 0
        THEN NoCall(st)
        ELSE LET current   == stack[idx]
                 drawerKey == current.drawerKey
                 rest      == Omit(current, {"drawerKey"})
                 next      == UpdaterResult(updater, rest, current)
             IN  IF updater.returns = "current"
                   THEN NoCall(st)
                   ELSE [state  |-> [stack |->
                                       moveToTop(stack, idx,
                                         Some(Spread([drawerKey |-> drawerKey],
                                                     next)))],
                         rounds |-> 1,
                         ret    |-> Undefined,
                         assigned |-> TRUE]

updateOptions(st, key, updater) ==
  LET stack == st.stack
      idx   == findIndex(key, stack)
  IN  IF idx = 0
        THEN NoCall(st)
        ELSE LET current   == stack[idx]
                 drawerKey == current.drawerKey
                 rest      == Omit(current, {"drawerKey"})
                 next      == UpdaterResult(updater, rest, current)
             IN  \* next === current: reference identity with the instance
                 IF updater.returns = "current"
                   THEN NoCall(st)
                   ELSE [state  |-> [stack |->
                                       [stack EXCEPT ![idx] =
                                          Spread([drawerKey |-> drawerKey], next)]],
                         rounds |-> 1,
                         ret    |-> Undefined,
                         assigned |-> TRUE]

\* An updater passed to updateDefaultOptions is modelled by what it returns
\* for the previous defaults (which may be undefined): "merge" is
\* prev => ({ ...prev, ...patch }), "replace" is () => patch.
DefaultsUpdaterResult(updater, defs) ==
  IF updater.returns = "merge"
    THEN Spread(IF defs = Undefined THEN <<>> ELSE defs[1], updater.patch)
    ELSE updater.patch

\* updateDefaultOptions that calls notify() after storing the defaults.
updateDefaultOptionsNotifies(st, defs, updater) ==
  [state |-> st, rounds |-> 1, ret |-> Undefined, assigned |-> FALSE,
   defaults |-> Some(DefaultsUpdaterResult(updater, defs))]

\* updateDefaultOptions(updater): besides the fields of the other
\* operations, the result carries the defaults stored.
updateDefaultOptions(st, defs, updater) ==
  [state |-> st, rounds |-> 0, ret |-> Undefined, assigned |-> FALSE,
   defaults |-> Some(DefaultsUpdaterResult(updater, defs))]

(***************************************************************************)
(* DrawerlyContainer: one record per mounted container                     *)
(***************************************************************************)
\* State of a container after setup() and onMounted().
NewContainer(st, headless) ==
  [headless       |-> headless,
   managerState   |-> st,
   renderStack    |-> st.stack,
   closingKeys    |-> {},
   enteringKeys   |-> {},
   nextTopKey     |-> Undefined,
   bulkClosingAll |-> FALSE]

addKey(set, key) == set \cup {key}

removeKey(set, key) == set \ {key}

\* !nextTopKey.value is true for null and for the empty string.
syncNextTopWithStack(c, stack) ==
  IF Falsy(c.nextTopKey)
    THEN c
    ELSE IF c.nextTopKey[1] \in KeysOf(stack)
      THEN c
      ELSE [c EXCEPT !.nextTopKey = Undefined]

updateEnteringKeys(c, prevState, nextState) ==
  LET prevKeys == KeysOf(prevState.stack)
      newKeys  == KeysOf(nextState.stack) \ prevKeys
      c1       == [c EXCEPT !.enteringKeys = @ \cup newKeys]
  IN  syncNextTopWithStack(c1, nextState.stack)

\* startCloseAllAnimation that leaves the closing drawers in enteringKeys.
startCloseAllAnimationKeepsEntering(c, prevState) ==
  LET prevStack == prevState.stack
      allKeys   == KeysOf(prevStack)
  IN  IF Len(prevStack) = 0
        THEN c
        ELSE [c EXCEPT !.bulkClosingAll = TRUE,
                       !.closingKeys    = @ \cup allKeys,
                       !.renderStack    = prevStack,
                       !.nextTopKey     = Undefined]

startCloseAllAnimation(c, prevState) ==
  LET prevStack == prevState.stack
      allKeys   == KeysOf(prevStack)
  IN  IF Len(prevStack) = 0
        THEN c
        ELSE [c EXCEPT !.bulkClosingAll = TRUE,
                       !.closingKeys    = @ \cup allKeys,
                       !.enteringKeys   = @ \ allKeys,
                       !.renderStack    = prevStack,
                       !.nextTopKey     = Undefined]

\* Close-all detection that does not look at closingKeys.
IsCloseAllIgnoresClosing(c, prevState, nextState) ==
  Len(prevState.stack) > 0 /\ Len(nextState.stack) = 0

\* Close-all detection of the subscribe listener: the stack went from
\* non-empty to empty while no drawer is closing.
IsCloseAll(c, prevState, nextState) ==
  /\ Len(prevState.stack) > 0
  /\ Len(nextState.stack) = 0
  /\ c.closingKeys = {}

\* A listener whose ordinary branch leaves renderStack as it was.
ListenerKeepsRenderStack(c, nextState) ==
  LET prevState == c.managerState
      c1        == [c EXCEPT !.managerState = nextState]
  IN  IF c.headless
        THEN [c1 EXCEPT !.renderStack    = nextState.stack,
                        !.closingKeys    = {},
                        !.enteringKeys   = {},
                        !.nextTopKey     = Undefined,
                        !.bulkClosingAll = FALSE]
        ELSE IF IsCloseAll(c1, prevState, nextState)
          THEN startCloseAllAnimation(c1, prevState)
          ELSE updateEnteringKeys(c1, prevState, nextState)

\* The listener the container subscribes in onMounted.
Listener(c, nextState) ==
  LET prevState == c.managerState
      c1        == [c EXCEPT !.managerState = nextState]
  IN  IF c.headless
        THEN [c1 EXCEPT !.renderStack    = nextState.stack,
                        !.closingKeys    = {},
                        !.enteringKeys   = {},
                        !.nextTopKey     = Undefined,
                        !.bulkClosingAll = FALSE]
        ELSE IF IsCloseAll(c1, prevState, nextState)
          THEN startCloseAllAnimation(c1, prevState)
          ELSE [updateEnteringKeys(c1, prevState, nextState)
                  EXCEPT !.renderStack = nextState.stack]

\* notify(): every subscribed listener is called with the manager's state.
\* `result` is what a manager operation returned.
notify(cs, result) ==
  IF result.rounds > 0
    THEN [i \in DOMAIN cs |-> Listener(cs[i], result.state)]
    ELSE cs

\* The container operations below return the manager's state, all
\* containers, and the notification rounds started.
finalizeClose(st, cs, i, key) ==
  LET isBulk == cs[i].bulkClosingAll
      r      == IF ~isBulk
                  THEN close(st, Some(key))
                  ELSE NoCall(st)
      cs1    == notify(cs, r)
      c1     == [cs1[i] EXCEPT !.closingKeys  = removeKey(@, key),
                               !.enteringKeys = removeKey(@, key)]
      c2     == IF isBulk /\ c1.closingKeys = {}
                  THEN [c1 EXCEPT !.renderStack    = c1.managerState.stack,
                                  !.bulkClosingAll = FALSE]
                  ELSE c1
      c3     == syncNextTopWithStack(c2, c2.managerState.stack)
      c4     == IF ~isBulk THEN [c3 EXCEPT !.nextTopKey = Undefined] ELSE c3
  IN  [state |-> r.state, containers |-> [cs1 EXCEPT ![i] = c4],
       rounds |-> r.rounds]

\* closeWithAnimation that closes on the manager at once in every mode.
closeWithAnimationImmediate(st, cs, i, key) ==
  LET r == close(st, Some(key))
  IN  [state |-> r.state, containers |-> notify(cs, r), rounds |-> r.rounds]

closeWithAnimation(st, cs, i, key) ==
  IF cs[i].headless
    THEN LET r == close(st, Some(key))
         IN  [state |-> r.state, containers |-> notify(cs, r),
              rounds |-> r.rounds]
    ELSE LET stack        == cs[i].renderStack
             len          == Len(stack)
             closingIndex == findIndex(key, stack)
             c1 == IF closingIndex # 0 /\ len > 1 /\ closingIndex = len
                     THEN [cs[i] EXCEPT !.nextTopKey =
                                          Some(stack[len - 1].drawerKey)]
                     ELSE cs[i]
             c2 == [c1 EXCEPT !.closingKeys = addKey(@, key)]
         IN  [state |-> st, containers |-> [cs EXCEPT ![i] = c2],
              rounds |-> 0]

ApplyPredicate(predicate, instance) == "title" \in DOMAIN instance

\* typeof v === 'function' ? v(instance) : Boolean(v), for the value v of
\* `field`; an absent field is undefined.
Resolves(instance, field) ==
  IF field \notin DOMAIN instance
    THEN FALSE
    ELSE IF instance[field] \in Predicates
      THEN ApplyPredicate(instance[field], instance)
      ELSE instance[field] = "true"

handleBackdropClick(st, cs, i, drawer) ==
  IF cs[i].headless
    THEN [state |-> st, containers |-> cs, rounds |-> 0]
    ELSE IF Resolves(drawer, "closeOnBackdropClick")
      THEN closeWithAnimation(st, cs, i, drawer.drawerKey)
      ELSE [state |-> st, containers |-> cs, rounds |-> 0]

\* handleKeyDown that closes the top drawer whatever its closeOnEscapeKey.
handleKeyDownIgnoresPolicy(st, cs, i, event) ==
  IF cs[i].headless \/ event.key # "Escape"
    THEN [state |-> st, containers |-> cs, rounds |-> 0]
    ELSE LET stack == cs[i].renderStack
         IN  IF Len(stack) > 0
               THEN closeWithAnimation(st, cs, i, stack[Len(stack)].drawerKey)
               ELSE [state |-> st, containers |-> cs, rounds |-> 0]

handleKeyDown(st, cs, i, event) ==
  IF cs[i].headless \/ event.key # "Escape"
    THEN [state |-> st, containers |-> cs, rounds |-> 0]
    ELSE LET stack == cs[i].renderStack
         IN  IF Len(stack) > 0
                  /\ Resolves(stack[Len(stack)], "closeOnEscapeKey")
               THEN closeWithAnimation(st, cs, i, stack[Len(stack)].drawerKey)
               ELSE [state |-> st, containers |-> cs, rounds |-> 0]

\* A keydown event on the document: the handler of every container from the
\* i-th on runs, in the order the containers were mounted.
RECURSIVE DispatchKeyDown(_, _, _, _)
DispatchKeyDown(st, cs, i, event) ==
  IF i > Len(cs)
    THEN [state |-> st, containers |-> cs, rounds |-> 0]
    ELSE LET r == handleKeyDown(st, cs, i, event)
             d == DispatchKeyDown(r.state, r.containers, i + 1, event)
         IN  [d EXCEPT !.rounds = @ + r.rounds]

\* Animation names are sequences of segments, so that startsWith is a
\* prefix test.
ExitPrefix == <<"drawerly-slide-out-">>

AnimationNames == {<<"drawerly-slide-out-", "right">>,
                   <<"drawerly-slide-in-", "right">>}

startsWith(name, prefix) ==
  /\ Len(name) >= Len(prefix)
  /\ SubSeq(name, 1, Len(prefix)) = prefix

\* An animationend event: its animationName and whether its target is the
\* panel element itself (event.target === event.currentTarget).  The events
\* delivered are an exit or an enter animation ending on the panel and an
\* exit-named animation ending on a descendant.
AnimationEvents ==
  {e \in [animationName : AnimationNames, onPanel : BOOLEAN] :
     startsWith(e.animationName, ExitPrefix) \/ e.onPanel}

ExitFinished == [animationName |-> <<"drawerly-slide-out-", "right">>,
                 onPanel |-> TRUE]

\* handlePanelAnimationEnd without the event.target test.
handlePanelAnimationEndAnyTarget(st, cs, i, key, event) ==
  IF \/ cs[i].headless
     \/ key \notin cs[i].closingKeys
     \/ ~startsWith(event.animationName, ExitPrefix)
    THEN [state |-> st, containers |-> cs, rounds |-> 0]
    ELSE finalizeClose(st, cs, i, key)

handlePanelAnimationEnd(st, cs, i, key, event) ==
  IF \/ cs[i].headless
     \/ key \notin cs[i].closingKeys
     \/ ~startsWith(event.animationName, ExitPrefix)
     \/ ~event.onPanel
    THEN [state |-> st, containers |-> cs, rounds |-> 0]
    ELSE finalizeClose(st, cs, i, key)

(***************************************************************************)
(* Plain listeners (manager.subscribe) and references kept by the client   *)
(***************************************************************************)
\* Listener functions client code subscribes:
\*   "limiter"  state => { if (state.stack.length > MaxOpen) manager.close() }
\*   "recorder" a listener that only looks at the snapshot it is given.
ListenerIds == {"limiter", "recorder"}

MaxOpen == 1

\* `listeners`: the Set of subscribed listeners in insertion order, and the
\* listeners for which subscribe has returned an unsubscribe function.
NoListeners == [subscribed |-> <<>>, unsubscribers |-> {}]

\* listeners.add(listener): a Set keeps one entry per function.
subscribe(ls, listener) ==
  [subscribed    |-> IF \E i \in 1..Len(ls.subscribed) :
                          ls.subscribed[i] = listener
                       THEN ls.subscribed
                       ELSE Append(ls.subscribed, listener),
   unsubscribers |-> ls.unsubscribers \cup {listener}]

\* An unsubscribe function that clears the whole Set.
unsubscribeClears(ls, listener) ==
  [ls EXCEPT !.subscribed = <<>>]

\* The function subscribe returned: listeners.delete(listener).
unsubscribe(ls, listener) ==
  [ls EXCEPT !.subscribed = SelectSeq(@, LAMBDA l : l # listener)]

\* The manager call a listener makes when it is invoked with `snapshot`
\* while the manager's state is st.
Reaction(listener, snapshot, st) ==
  IF listener = "limiter" /\ Len(snapshot.stack) > MaxOpen
    THEN close(st, Undefined)
    ELSE NoCall(st)

\* notify() that hands every listener of a round the snapshot the round
\* started with.
RECURSIVE DeliverFrozen(_, _, _, _, _)
DeliverFrozen(acc, order, i, round, produced) ==
  IF i > Len(order)
    THEN acc
    ELSE LET seen == [listener |-> order[i],
                      snapshot |-> produced,
                      current  |-> acc.state,
                      round    |-> round,
                      produced |-> produced]
             a1   == [acc EXCEPT !.invocations = Append(@, seen)]
             r    == Reaction(order[i], seen.snapshot, a1.state)
             a2   == IF r.rounds > 0
                       THEN DeliverFrozen([a1 EXCEPT !.state = r.state,
                                                     !.rounds = @ + 1],
                                          order, 1, a1.rounds + 1, r.state)
                       ELSE a1
         IN  DeliverFrozen(a2, order, i + 1, round, produced)

\* notify(): for (const listener of listeners) listener(state), from the
\* i-th listener on.  `state` is read again for every listener; a listener
\* that calls a manager operation runs that operation, and the round it
\* starts, before the loop goes on.  Every invocation is recorded with the
\* snapshot passed, what getState() returns at that moment, the round it
\* belongs to and the snapshot produced by the call that started the round.
RECURSIVE Deliver(_, _, _, _, _)
Deliver(acc, order, i, round, produced) ==
  IF i > Len(order)
    THEN acc
    ELSE LET seen == [listener |-> order[i],
                      snapshot |-> acc.state,
                      current  |-> acc.state,
                      round    |-> round,
                      produced |-> produced]
             a1   == [acc EXCEPT !.invocations = Append(@, seen)]
             r    == Reaction(order[i], seen.snapshot, a1.state)
             a2   == IF r.rounds > 0
                       THEN Deliver([a1 EXCEPT !.state = r.state,
                                               !.rounds = @ + 1],
                                    order, 1, a1.rounds + 1, r.state)
                       ELSE a1
         IN  Deliver(a2, order, i + 1, round, produced)

\* The outcome of a manager operation that returned r, once its notify()
\* has returned.
Delivered(r, order) ==
  IF r.rounds > 0
    THEN Deliver([state |-> r.state, invocations |-> <<>>, rounds |-> 1],
                 order, 1, 1, r.state)
    ELSE [state |-> r.state, invocations |-> <<>>, rounds |-> 0]

\* `held`: Undefined, or Some of an object the client keeps a reference to
\* (the initialState it passed to createDrawerManager, or a snapshot that
\* getState() returned): the contents it had when obtained (seen), the
\* contents it has now (object), and whether it is the object the manager's
\* `state` variable refers to (current).
Holding(kind, st, isCurrent) ==
  Some([kind |-> kind, seen |-> st, object |-> st, current |-> isCurrent])

\* The held object after a manager operation that returned r: an assignment
\* `state = { stack: ... }` makes another object the current one; a change
\* without assignment is a write into the current object.
Written(h, r) ==
  IF h = Undefined
    THEN h
    ELSE IF r.assigned
      THEN Some([h[1] EXCEPT !.current = FALSE])
      ELSE IF h[1].current
        THEN Some([h[1] EXCEPT !.object = r.state])
        ELSE h

(***************************************************************************)
(* Initial states                                                          *)
(***************************************************************************)
\* Stacks of at most max instances with pairwise different keys.
UniqueStacks(opts, max) ==
  {s \in UNION {[1..n -> opts] : n \in 0..max} :
     \A i, j \in 1..Len(s) : s[i].drawerKey = s[j].drawerKey => i = j}

\* The record of the latest call: the operation, its arguments (each
\* Undefined when the operation has none), the number of notification rounds
\* it started, the key it returned, the length of the stack before it, and
\* a bit that flips on every call.
NoArgs == [key |-> Undefined, options |-> Undefined, updater |-> Undefined,
           event |-> Undefined]

Called(op, args, rounds, ret) ==
  [op |-> op, key |-> args.key, options |-> args.options,
   updater |-> args.updater, event |-> args.event,
   rounds |-> rounds, ret |-> ret,
   prevLen |-> Len(state.stack), tick |-> 1 - last.tick]

Created ==
  [op |-> "createDrawerManager", key |-> Undefined, options |-> Undefined,
   updater |-> Undefined, event |-> Undefined,
   rounds |-> 0, ret |-> Undefined, prevLen |-> 0, tick |-> 0]

\* createDrawerManager(initialState) with one animated container mounted on it.
Init ==
  /\ \E s \in UniqueStacks(Options, MaxRendered) : state = [stack |-> s]
  /\ defaults = InitialDefaults(Undefined)
  /\ containers = <<NewContainer(state, FALSE)>>
  /\ last = Created
  /\ listeners = NoListeners
  /\ invocations = <<>>
  /\ held = Undefined

\* createDrawerManager(initialState, defaultOptions?) used on its own.
InitManager ==
  /\ \E s \in UniqueStacks(ManagerOptions, MaxStack) : state = [stack |-> s]
  /\ \E d \in {Undefined} \cup {Some(x) : x \in DefaultChoices} :
       defaults = InitialDefaults(d)
  /\ containers = <<>>
  /\ last = Created
  /\ listeners = NoListeners
  /\ invocations = <<>>
  /\ held = Undefined

\* createDrawerManager(initialState) used by client code that keeps its
\* initialState object; the manager's stack is a copy of the array passed.
InitClient ==
  /\ \E s \in UniqueStacks(ClientOptions, MaxListened) :
       /\ state = [stack |-> s]
       /\ held = Holding("initialState", [stack |-> s], FALSE)
  /\ defaults = InitialDefaults(Undefined)
  /\ containers = <<>>
  /\ last = Created
  /\ listeners = NoListeners
  /\ invocations = <<>>

\* createDrawerManager(initialState) with the containers of `modes` mounted
\* on it: one container per element, headless where the element is TRUE.
InitMounted(options, modes) ==
  /\ \E s \in UniqueStacks(options, MaxRendered) : state = [stack |-> s]
  /\ defaults = InitialDefaults(Undefined)
  /\ containers = [i \in 1..Len(modes) |-> NewContainer(state, modes[i])]
  /\ last = Created
  /\ listeners = NoListeners
  /\ invocations = <<>>
  /\ held = Undefined

(***************************************************************************)
(* Actions: calls on the manager                                           *)
(***************************************************************************)
\* A call of a manager operation whose translation returned r: the manager's
\* state after every notification round the call caused, the containers and
\* the plain listeners notified, and the call recorded.  (No specification
\* below subscribes containers and plain listeners to the same manager.)
Invoke(op, args, r) ==
  LET d == Delivered(r, listeners.subscribed)
  IN  /\ state' = d.state
      /\ containers' = notify(containers, r)
      /\ invocations' = d.invocations
      /\ held' = Written(held, r)
      /\ last' = Called(op, args, r.rounds, r.ret)

Open(options) ==
  /\ Invoke("open",
            [NoArgs EXCEPT !.key = Some(options.drawerKey),
                           !.options = Some(options)],
            open(state, defaults, options))
  /\ UNCHANGED <<defaults, listeners>>

\* close(key?) with key = Undefined or Some(k).
Close(key) ==
  /\ Invoke("close", [NoArgs EXCEPT !.key = key], close(state, key))
  /\ UNCHANGED <<defaults, listeners>>

BringToTop(key) ==
  /\ Invoke("bringToTop", [NoArgs EXCEPT !.key = Some(key)],
            bringToTop(state, key))
  /\ UNCHANGED <<defaults, listeners>>

CloseAll ==
  /\ Invoke("closeAll", NoArgs, closeAll(state))
  /\ UNCHANGED <<defaults, listeners>>

UpdateOptions(key, updater) ==
  /\ Invoke("updateOptions",
            [NoArgs EXCEPT !.key = Some(key), !.updater = Some(updater)],
            updateOptions(state, key, updater))
  /\ UNCHANGED <<defaults, listeners>>

\* updateDefaultOptions(updater); the call is recorded with the object the
\* updater returned.
UpdateDefaultOptions(updater) ==
  LET r == updateDefaultOptions(state, defaults, updater)
  IN  /\ Invoke("updateDefaultOptions",
                [NoArgs EXCEPT !.options = r.defaults,
                               !.updater = Some(updater)],
                r)
      /\ defaults' = r.defaults
      /\ UNCHANGED listeners

Subscribe(listener) ==
  /\ listeners' = subscribe(listeners, listener)
  /\ invocations' = <<>>
  /\ last' = Called("subscribe", [NoArgs EXCEPT !.key = Some(listener)], 0,
                   Undefined)
  /\ UNCHANGED <<state, defaults, containers, held>>

\* A call of the function that subscribe(listener) returned.
Unsubscribe(listener) ==
  /\ listener \in listeners.unsubscribers
  /\ listeners' = unsubscribe(listeners, listener)
  /\ invocations' = <<>>
  /\ last' = Called("unsubscribe", [NoArgs EXCEPT !.key = Some(listener)], 0,
                   Undefined)
  /\ UNCHANGED <<state, defaults, containers, held>>

\* getState(), the client keeping the snapshot returned.
GetState ==
  /\ held' = Holding("getState", state, TRUE)
  /\ invocations' = <<>>
  /\ last' = Called("getState", NoArgs, 0, Undefined)
  /\ UNCHANGED <<state, defaults, containers, listeners>>

(***************************************************************************)
(* Actions: events delivered to container i                                *)
(***************************************************************************)
RenderedKeys(i) == KeysOf(containers[i].renderStack)

\* A close callback that marks the drawer closing and never names a next
\* top.
HandleCloseMarksOnly(i, key) ==
  /\ key \in RenderedKeys(i)
  /\ state' = state
  /\ containers' = [containers EXCEPT ![i].closingKeys = addKey(@, key)]
  /\ last' = Called("closeWithAnimation", [NoArgs EXCEPT !.key = Some(key)],
                    0, Undefined)
  /\ UNCHANGED <<defaults, listeners, invocations, held>>

\* The close callback handed to the content of rendered drawer `key`
\* (handleClose).
HandleClose(i, key) ==
  /\ key \in RenderedKeys(i)
  /\ LET r == closeWithAnimation(state, containers, i, key)
     IN  /\ state' = r.state
         /\ containers' = r.containers
         /\ last' = Called("closeWithAnimation",
                           [NoArgs EXCEPT !.key = Some(key)],
                           r.rounds, Undefined)
  /\ UNCHANGED <<defaults, listeners, invocations, held>>

\* The close callback of an earlier render, called after its drawer `key`
\* has left renderStack.
HandleStaleClose(i, key) ==
  /\ key \notin RenderedKeys(i)
  /\ LET r == closeWithAnimation(state, containers, i, key)
     IN  /\ state' = r.state
         /\ containers' = r.containers
         /\ last' = Called("closeWithAnimation",
                           [NoArgs EXCEPT !.key = Some(key)],
                           r.rounds, Undefined)
  /\ UNCHANGED <<defaults, listeners, invocations, held>>

\* An animationend event on the panel of rendered drawer `key`.
HandlePanelAnimationEnd(i, key, event) ==
  /\ key \in RenderedKeys(i)
  /\ LET r == handlePanelAnimationEnd(state, containers, i, key, event)
     IN  /\ state' = r.state
         /\ containers' = r.containers
         /\ last' = Called("animationend",
                           [NoArgs EXCEPT !.key = Some(key),
                                          !.event = Some(event)],
                           r.rounds, Undefined)
  /\ UNCHANGED <<defaults, listeners, invocations, held>>

\* The instance container i renders under `key`.
Rendered(i, key) ==
  containers[i].renderStack[findIndex(key, containers[i].renderStack)]

\* A click on the backdrop of rendered drawer `key`.
HandleBackdropClick(i, key) ==
  /\ key \in RenderedKeys(i)
  /\ LET r == handleBackdropClick(state, containers, i, Rendered(i, key))
     IN  /\ state' = r.state
         /\ containers' = r.containers
         /\ last' = Called("backdropclick",
                           [NoArgs EXCEPT !.key = Some(key)],
                           r.rounds, Undefined)
  /\ UNCHANGED <<defaults, listeners, invocations, held>>

\* A keydown event on the document.
KeyDown(event) ==
  /\ LET r == DispatchKeyDown(state, containers, 1, event)
     IN  /\ state' = r.state
         /\ containers' = r.containers
         /\ last' = Called("keydown", [NoArgs EXCEPT !.event = Some(event)],
                           r.rounds, Undefined)
  /\ UNCHANGED <<defaults, listeners, invocations, held>>

(***************************************************************************)
(* Specifications                                                          *)
(***************************************************************************)
\* A new key is opened only while the stack is shorter than `max`.
Fits(options, max) ==
  options.drawerKey \in KeysOf(state.stack) \/ Len(state.stack) < max

\* Updaters the container specification uses.
ContainerUpdaters == {u \in Updaters : u.returns = "same"}

Next ==
  \/ \E o \in Options : Fits(o, MaxRendered) /\ Open(o)
  \/ \E k \in Keys : Close(Some(k))
  \/ Close(Undefined)
  \/ \E k \in Keys : BringToTop(k)
  \/ CloseAll
  \/ \E k \in Keys, u \in ContainerUpdaters : UpdateOptions(k, u)
  \/ \E i \in DOMAIN containers, k \in Keys : HandleClose(i, k)
  \/ \E i \in DOMAIN containers, k \in Keys, e \in AnimationEvents :
       HandlePanelAnimationEnd(i, k, e)

\* The manager with an animated container mounted on it.
Spec == Init /\ [][Next]_vars

NextManager ==
  \/ \E o \in ManagerOptions : Fits(o, MaxStack) /\ Open(o)
  \/ \E k \in Keys : Close(Some(k))
  \/ Close(Undefined)
  \/ \E k \in Keys : BringToTop(k)
  \/ CloseAll
  \/ \E k \in Keys, u \in Updaters : UpdateOptions(k, u)
  \/ \E d \in DefaultChoices :
       UpdateDefaultOptions([returns |-> "replace", patch |-> d])

\* The manager on its own, no container subscribed.
ManagerSpec == InitManager /\ [][NextManager]_vars

NextClient ==
  \/ \E o \in ClientOptions : Fits(o, MaxListened) /\ Open(o)
  \/ \E k \in Keys : Close(Some(k))
  \/ Close(Undefined)
  \/ \E k \in Keys : BringToTop(k)
  \/ CloseAll
  \/ \E k \in Keys, u \in Updaters :
       u.returns \in ClientUpdaterKinds /\ UpdateOptions(k, u)
  \/ \E l \in ListenerIds : Subscribe(l)
  \/ \E l \in ListenerIds : Unsubscribe(l)
  \/ GetState

\* The manager used by client code that subscribes plain listeners and keeps
\* references to snapshots.
ClientSpec == InitClient /\ [][NextClient]_vars

\* createDrawerManager(initialState, defaultOptions?) used by client code
\* that subscribes listeners.
InitDefaults ==
  /\ \E s \in UniqueStacks(ClientOptions, 1) : state = [stack |-> s]
  /\ \E d \in {Undefined} \cup {Some(x) : x \in DefaultChoices} :
       defaults = InitialDefaults(d)
  /\ containers = <<>>
  /\ last = Created
  /\ listeners = NoListeners
  /\ invocations = <<>>
  /\ held = Undefined

NextDefaults ==
  \/ \E o \in ClientOptions : Fits(o, MaxListened) /\ Open(o)
  \/ Close(Undefined)
  \/ Subscribe("recorder")
  \/ \E u \in DefaultsUpdaters : UpdateDefaultOptions(u)

\* The manager with listeners subscribed and its defaults updated.
DefaultsSpec == InitDefaults /\ [][NextDefaults]_vars

\* Events of the containers: the close callback, backdrop clicks, keydown
\* and the end of animations.
NextEvents ==
  \/ \E i \in DOMAIN containers, k \in Keys : HandleClose(i, k)
  \/ \E i \in DOMAIN containers, k \in Keys : HandleBackdropClick(i, k)
  \/ \E e \in KeyEvents : KeyDown(e)
  \/ \E i \in DOMAIN containers, k \in Keys, e \in AnimationEvents :
       HandlePanelAnimationEnd(i, k, e)

NextPolicy ==
  \/ \E o \in PolicyOptions : Fits(o, MaxRendered) /\ Open(o)
  \/ NextEvents

\* An animated container with drawers of different close policies.
PolicySpec == InitMounted(PolicyOptions, <<FALSE>>) /\ [][NextPolicy]_vars

NextHeadless ==
  \/ \E o \in PolicyOptions : Fits(o, MaxRendered) /\ Open(o)
  \/ \E k \in Keys : Close(Some(k))
  \/ Close(Undefined)
  \/ \E k \in Keys : BringToTop(k)
  \/ CloseAll
  \/ NextEvents

\* A headless container.
HeadlessSpec == InitMounted(PolicyOptions, <<TRUE>>) /\ [][NextHeadless]_vars

NextShared ==
  \/ \E o \in SharedOptions : Fits(o, MaxRendered) /\ Open(o)
  \/ KeyDown([key |-> "Escape"])
  \/ \E i \in DOMAIN containers, k \in Keys :
       HandlePanelAnimationEnd(i, k, ExitFinished)

\* Two animated containers mounted on the same manager.
SharedSpec ==
  InitMounted(SharedOptions, <<FALSE, FALSE>>) /\ [][NextShared]_vars

NextCallbacks ==
  \/ \E o \in Options : Fits(o, MaxRendered) /\ Open(o)
  \/ \E k \in Keys : Close(Some(k))
  \/ CloseAll
  \/ \E i \in DOMAIN containers, k \in Keys : HandleClose(i, k)
  \/ \E i \in DOMAIN containers, k \in Keys : HandleStaleClose(i, k)
  \/ \E i \in DOMAIN containers, k \in Keys :
       HandlePanelAnimationEnd(i, k, ExitFinished)

\* An animated container whose close callbacks are called for rendered
\* drawers and for drawers no longer rendered.
CallbackSpec == Init /\ [][NextCallbacks]_vars

NextKeyed ==
  \/ \E o \in ClientOptions : Fits(o, MaxListened) /\ Open(o)
  \/ \E k \in Keys : BringToTop(k)
  \/ \E k \in Keys, u \in KeyedUpdaters : UpdateOptions(k, u)

\* The manager used with updaters that return a drawerKey field.
KeyedSpec == InitClient /\ [][NextKeyed]_vars

\* Every drawer rendered as closing eventually reports the end of its exit
\* animation.
ExitAnimationsFinish ==
  \A k \in Keys :
    WF_vars(/\ k \in containers[1].closingKeys
            /\ HandlePanelAnimationEnd(1, k, ExitFinished))

FairSpec == Init /\ [][Next]_vars /\ ExitAnimationsFinish

(***************************************************************************)
(* State of the first container, by the names of its refs                  *)
(***************************************************************************)
renderStack == containers[1].renderStack

closingKeys == containers[1].closingKeys

enteringKeys == containers[1].enteringKeys

nextTopKey == containers[1].nextTopKey

bulkClosingAll == containers[1].bulkClosingAll

managerState == containers[1].managerState

Subscribed(ls) == {ls.subscribed[i] : i \in 1..Len(ls.subscribed)}

MutatingOps == {"open", "close", "bringToTop", "closeAll", "updateOptions"}

\* The instances of `stack` whose key is not `key`, in order.
Without(stack, key) == SelectSeq(stack, LAMBDA d : d.drawerKey # key)

(***************************************************************************)
(* Properties of the manager (ManagerSpec)                                 *)
(***************************************************************************)

\* C1: the authoritative stack never holds two instances with the same key,
\* whatever open, close, bringToTop and closeAll calls were made.
KeyUniqueness ==
  \A i, j \in 1..Len(state.stack) :
    state.stack[i].drawerKey = state.stack[j].drawerKey => i = j

\* C1 witness: a full stack on which an already present key was opened again.
KeyUniquenessWitness ==
  /\ last.op = "open"
  /\ last.prevLen = MaxStack
  /\ Len(state.stack) = MaxStack

\* C9: open(r) puts an instance with r's key last, carrying r's fields over
\* the defaults' fields; it returns the key and notifies once; a new key adds
\* one instance, a present key replaces its instance, and the other instances
\* keep their order.  Opening the same options twice in a row keeps the key
\* last with the same length, and notifies both times.
OpenPromotesToTop ==
  [][last'.op = "open" =>
       LET r      == last'.options[1]
           before == state.stack
           after  == state'.stack
           top    == after[Len(after)]
           dflt   == IF defaults = Undefined
                       THEN [f \in {} |-> TRUE]
                       ELSE defaults[1]
       IN  /\ Len(after) > 0
           /\ top.drawerKey = r.drawerKey
           /\ DOMAIN top = (DOMAIN r) \cup (DOMAIN dflt)
           /\ \A f \in DOMAIN r : top[f] = r[f]
           /\ \A f \in (DOMAIN dflt) \ (DOMAIN r) : top[f] = dflt[f]
           /\ last'.ret = Some(r.drawerKey)
           /\ last'.rounds = 1
           /\ SubSeq(after, 1, Len(after) - 1) = Without(before, r.drawerKey)
           /\ Len(after) = IF r.drawerKey \in KeysOf(before)
                             THEN Len(before)
                             ELSE Len(before) + 1
           /\ (last.op = "open" /\ last.options = last'.options)
                => Len(after) = Len(before)
  ]_vars

\* C9 witness: a present key other than the last was opened again with
\* different fields on a three-instance stack.
OpenPromotesToTopWitness ==
  /\ last.op = "open"
  /\ last.prevLen = 3
  /\ Len(state.stack) = 3
  /\ "title" \in DOMAIN last.options[1]
  /\ state.stack[3].drawerKey = last.key[1]
  /\ state.stack[3].title = "X"
  /\ "title" \notin DOMAIN state.stack[1]

\* C10 (as claimed): on a non-empty stack close() removes only the last
\* instance, close(k) with k present removes only the instance with key k,
\* closeAll() removes every instance; the remaining instances keep order
\* and fields, and listeners are notified exactly once.
RemovalRemovesExactlyTheTarget ==
  [][/\ (last'.op = "close" /\ last'.key = Undefined /\ Len(state.stack) > 0)
          => /\ state'.stack = SubSeq(state.stack, 1, Len(state.stack) - 1)
             /\ last'.rounds = 1
     /\ (last'.op = "close" /\ last'.key # Undefined
           /\ last'.key[1] \in KeysOf(state.stack))
          => /\ state'.stack = Without(state.stack, last'.key[1])
             /\ last'.rounds = 1
     /\ (last'.op = "closeAll" /\ Len(state.stack) > 0)
          => /\ state'.stack = <<>>
             /\ last'.rounds = 1
  ]_vars

\* C11 (as claimed): close(k) for a string k, the empty string included,
\* that is the key of no instance of a non-empty stack leaves the stack
\* unchanged (same snapshot) and starts no notification.
CloseUnknownKeyIsNoOp ==
  [][(/\ last'.op = "close"
      /\ last'.key # Undefined
      /\ last'.key[1] \notin KeysOf(state.stack)
      /\ Len(state.stack) > 0) =>
       /\ state' = state
       /\ last'.rounds = 0
       /\ invocations' = <<>>
  ]_vars

\* The result of updater `u` for the instance stored at index i.
UpdatedFields(u, stack, i) ==
  UpdaterResult(u, Omit(stack[i], {"drawerKey"}), stack[i])

\* C14: updateOptions(k, f) with k present at index i and f returning a new
\* object stores at index i the key k with the fields f returned, keeps the
\* length of the stack and every other instance, and notifies exactly once.
UpdateOptionsInPlace ==
  [][(/\ last'.op = "updateOptions"
      /\ last'.updater[1].returns \in {"merge", "replace"}
      /\ last'.key[1] \in KeysOf(state.stack)) =>
       LET k == last'.key[1]
           i == findIndex(k, state.stack)
           f == UpdatedFields(last'.updater[1], state.stack, i)
       IN  /\ Len(state'.stack) = Len(state.stack)
           /\ \A j \in 1..Len(state.stack) :
                j # i => state'.stack[j] = state.stack[j]
           /\ state'.stack[i].drawerKey = k
           /\ DOMAIN state'.stack[i] = {"drawerKey"} \cup DOMAIN f
           /\ \A g \in DOMAIN f : state'.stack[i][g] = f[g]
           /\ last'.rounds = 1
  ]_vars

\* C14 witness: the bottom instance of three was replaced by the updater's
\* fields alone and stayed at the bottom, below an instance that still has
\* the default placement.
UpdateOptionsInPlaceWitness ==
  /\ last.op = "updateOptions"
  /\ last.updater[1].returns = "replace"
  /\ last.rounds = 1
  /\ Len(state.stack) = 3
  /\ state.stack[1].drawerKey = last.key[1]
  /\ DOMAIN state.stack[1] = {"drawerKey", "title"}
  /\ state.stack[1].title = "Y"
  /\ "placement" \in DOMAIN state.stack[3]

\* C16: bringToTop(k) on a stack of at least two instances, k present and
\* not last, yields the stack without k's instance followed by that same
\* instance: same length, the others in their order, one notification.
BringToTopOrdering ==
  [][(/\ last'.op = "bringToTop"
      /\ Len(state.stack) >= 2
      /\ last'.key[1] \in KeysOf(state.stack)
      /\ state.stack[Len(state.stack)].drawerKey # last'.key[1]) =>
       LET k == last'.key[1]
           i == findIndex(k, state.stack)
       IN  /\ state'.stack = Append(Without(state.stack, k), state.stack[i])
           /\ Len(state'.stack) = Len(state.stack)
           /\ last'.rounds = 1
  ]_vars

\* C16 witness: the bottom instance of three, the only one with a title, was
\* brought to the top.
BringToTopOrderingWitness ==
  /\ last.op = "bringToTop"
  /\ last.rounds = 1
  /\ Len(state.stack) = 3
  /\ state.stack[3].drawerKey = last.key[1]
  /\ "title" \in DOMAIN state.stack[3]
  /\ "title" \notin DOMAIN state.stack[1]
  /\ "title" \notin DOMAIN state.stack[2]

\* The built-in values createDrawerManager puts underneath the defaults it
\* is given.
BuiltIn == [placement |-> "right", closeOnEscapeKey |-> "true",
            closeOnBackdropClick |-> "true"]

\* Field f of `record` is r's value when r has f, else the defaults' value
\* when the defaults (an optional object) have f, else absent.
MergedField(record, f, r, defs) ==
  IF f \in DOMAIN r
    THEN f \in DOMAIN record /\ record[f] = r[f]
    ELSE IF defs # Undefined /\ f \in DOMAIN defs[1]
      THEN f \in DOMAIN record /\ record[f] = defs[1][f]
      ELSE f \notin DOMAIN record

FieldNames == {"drawerKey", "title", "placement", "closeOnEscapeKey",
               "closeOnBackdropClick"}

\* C23: defaults given at construction are stored over the built-in values
\* placement=right, closeOnEscapeKey=true, closeOnBackdropClick=true; for
\* every open(r) each field of the stored instance is r's value when r has
\* the field, else the current defaults' value, else absent; without
\* defaults the instance is stored as given.
DefaultMergePrecedence ==
  /\ \/ defaults = Undefined
     \/ \E d \in DefaultChoices :
          \A f \in FieldNames : MergedField(defaults[1], f, d, Some(BuiltIn))
  /\ [][last'.op = "open" =>
          LET r      == last'.options[1]
              stored == state'.stack[Len(state'.stack)]
          IN  /\ \A f \in FieldNames : MergedField(stored, f, r, defaults)
              /\ DOMAIN stored \subseteq FieldNames
              /\ defaults = Undefined => stored = r
     ]_vars

\* C23 witness: on a manager whose defaults are the caller's placement and
\* title over the built-in values, an open with a title of its own stored
\* that title, the caller's default placement and the built-in policies.
DefaultMergePrecedenceWitness ==
  /\ last.op = "open"
  /\ defaults # Undefined
  /\ defaults[1].title = "D"
  /\ "closeOnEscapeKey" \in DOMAIN defaults[1]
  /\ "title" \in DOMAIN last.options[1]
  /\ last.options[1].title = "X"
  /\ "placement" \notin DOMAIN last.options[1]
  /\ state.stack[Len(state.stack)].title = "X"
  /\ state.stack[Len(state.stack)].placement = "left"
  /\ state.stack[Len(state.stack)].closeOnEscapeKey = "true"

(***************************************************************************)
(* Properties of updateDefaultOptions (DefaultsSpec)                       *)
(***************************************************************************)

DocumentedSubscriptionTriggers ==
  [][(\/ last'.op \in MutatingOps /\ state' # state
      \/ last'.op = "updateDefaultOptions" /\ defaults' # defaults) =>
       \A l \in Subscribed(listeners) :
         \E i \in 1..Len(invocations') : invocations'[i].listener = l
  ]_vars

(***************************************************************************)
(* Properties of updateOptions with keyed results (KeyedSpec)              *)
(***************************************************************************)

\* C15 (as claimed): whatever fields the updater's result carries, a
\* drawerKey field included, the instance stored by updateOptions(k, f) still
\* has key k, and a stack with pairwise different keys keeps them different.
UpdateOptionsKeepsKey ==
  [][(/\ last'.op = "updateOptions"
      /\ last'.key[1] \in KeysOf(state.stack)) =>
       LET k == last'.key[1]
           i == findIndex(k, state.stack)
       IN  /\ state'.stack[i].drawerKey = k
           /\ Cardinality(KeysOf(state.stack)) = Len(state.stack)
                => Cardinality(KeysOf(state'.stack)) = Len(state'.stack)
  ]_vars

(***************************************************************************)
(* Properties of notification and snapshots (ClientSpec)                   *)
(***************************************************************************)
\* The invocations of `listener` in `round` among `invs`.
InvocationsOf(invs, listener, round) ==
  {i \in 1..Len(invs) :
     invs[i].listener = listener /\ invs[i].round = round}

\* C12: close() and closeAll() on an empty stack, bringToTop(k) with k
\* absent, already last, or fewer than two instances, and updateOptions(k, f)
\* with k absent leave the state and the identity of the current snapshot as
\* they are and invoke no listener.
NoOpSilence ==
  [][(\/ /\ last'.op = "close"
         /\ last'.key = Undefined
         /\ Len(state.stack) = 0
      \/ /\ last'.op = "closeAll"
         /\ Len(state.stack) = 0
      \/ /\ last'.op = "bringToTop"
         /\ \/ last'.key[1] \notin KeysOf(state.stack)
            \/ Len(state.stack) < 2
            \/ state.stack[Len(state.stack)].drawerKey = last'.key[1]
      \/ /\ last'.op = "updateOptions"
         /\ last'.key[1] \notin KeysOf(state.stack)) =>
       /\ state' = state
       /\ held' = held
       /\ last'.rounds = 0
       /\ invocations' = <<>>
  ]_vars

\* C12 witness: with two listeners subscribed and the current snapshot held
\* by the client, close() was called on an empty stack.
NoOpSilenceWitness ==
  /\ last.op = "close"
  /\ last.key = Undefined
  /\ last.prevLen = 0
  /\ Len(listeners.subscribed) = 2
  /\ held # Undefined
  /\ held[1].current
  /\ invocations = <<>>

\* C13 (as claimed): updateOptions(k, x => x) for a present key k invokes no
\* listener and leaves the snapshot and the stored instance as they are.
UpdateIdentityIsNoOp ==
  [][(/\ last'.op = "updateOptions"
      /\ last'.updater[1].returns = "same"
      /\ last'.key[1] \in KeysOf(state.stack)) =>
       /\ invocations' = <<>>
       /\ state' = state
       /\ held' = held
  ]_vars

RoundsSeeOneSnapshot ==
  \A i \in 1..Len(invocations) :
    invocations[i].snapshot = invocations[i].produced

\* C19: every call that starts a notification round makes getState() return
\* another object than any snapshot obtained before, and the contents of an
\* object the client holds (a snapshot obtained earlier, or the initialState
\* it passed to createDrawerManager) stay what they were when obtained.
SnapshotsImmutable ==
  [][held' # Undefined =>
       /\ held'[1].object = held'[1].seen
       /\ (last'.op \in MutatingOps /\ last'.rounds > 0) => ~held'[1].current
  ]_vars

\* C19 witness: the client holds a snapshot of two instances obtained from
\* getState(), a later closeAll emptied the manager's stack, and the snapshot
\* still shows the two instances.
SnapshotsImmutableWitness ==
  /\ last.op = "closeAll"
  /\ last.rounds = 1
  /\ held # Undefined
  /\ held[1].kind = "getState"
  /\ Len(held[1].object.stack) = 2
  /\ state.stack = <<>>

\* C20: a listener that is not subscribed (its unsubscribe function has been
\* called) is invoked by no mutation while every subscribed listener is;
\* unsubscribing removes that listener alone, and a second call of the
\* unsubscribe function changes nothing.
UnsubscribeStopsInvocations ==
  [][/\ (last'.op \in MutatingOps /\ last'.rounds > 0) =>
          \A l \in ListenerIds :
            l \in Subscribed(listeners)
              <=> (\E i \in 1..Len(invocations') : invocations'[i].listener = l)
     /\ last'.op = "unsubscribe" =>
          /\ last'.key[1] \notin Subscribed(listeners')
          /\ listeners'.subscribed =
               SelectSeq(listeners.subscribed, LAMBDA l : l # last'.key[1])
          /\ state' = state
     /\ (/\ last'.op = "unsubscribe"
         /\ last.op = "unsubscribe"
         /\ last'.key = last.key) => listeners' = listeners
  ]_vars

\* C20 witness: both listeners were subscribed, the limiter was unsubscribed,
\* and an open that put two instances on the stack invoked the recorder alone.
UnsubscribeStopsInvocationsWitness ==
  /\ last.op = "open"
  /\ listeners.unsubscribers = ListenerIds
  /\ listeners.subscribed = <<"recorder">>
  /\ Len(invocations) = 1
  /\ invocations[1].listener = "recorder"
  /\ Len(state.stack) = 2

(***************************************************************************)
(* Properties of the animated container (Spec)                             *)
(***************************************************************************)

\* C2: closeAll() on a non-empty stack while no drawer is closing leaves the
\* container rendering the previous stack in the same order, with all its
\* keys closing and none of them entering, bulkClosingAll set, nextTopKey
\* absent, and the authoritative stack already empty.
CloseAllDetection ==
  [][(last'.op = "closeAll" /\ Len(state.stack) > 0 /\ closingKeys = {}) =>
       /\ state'.stack = <<>>
       /\ renderStack' = state.stack
       /\ KeysOf(state.stack) \subseteq closingKeys'
       /\ enteringKeys' \cap KeysOf(state.stack) = {}
       /\ bulkClosingAll'
       /\ nextTopKey' = Undefined
  ]_vars

\* C2 witness: a close-all of two drawers, one of which was still entering
\* before the call, is being animated.
CloseAllDetectionWitness ==
  /\ last.op = "closeAll"
  /\ last.prevLen = 2
  /\ state.stack = <<>>
  /\ Len(renderStack) = 2
  /\ closingKeys = KeysOf(renderStack)
  /\ enteringKeys # {}
  /\ bulkClosingAll

\* C3 (as claimed): once bulkClosingAll is set it stays set and renderStack
\* keeps showing the previous drawers until every closing key has reported
\* the end of its exit animation; when the last one reports, renderStack
\* becomes the manager's (empty) stack and bulkClosingAll is cleared;
\* finalizing in bulk mode never calls the manager's close.
BulkCompletion ==
  [][bulkClosingAll =>
       /\ (last'.op = "animationend" => (state' = state /\ last'.rounds = 0))
       /\ IF last'.op = "animationend" /\ closingKeys # {} /\ closingKeys' = {}
            THEN /\ ~bulkClosingAll'
                 /\ renderStack' = state'.stack
                 /\ renderStack' = <<>>
            ELSE /\ bulkClosingAll'
                 /\ renderStack' = renderStack
  ]_vars

\* C4: an animated close of one drawer k (closeWithAnimation(k), then the end
\* of k's exit animation) adds no key other than k to closingKeys and never
\* sets bulkClosingAll, also when k is the only drawer.
SingleCloseNeverBulk ==
  [][last'.op \in {"closeWithAnimation", "animationend"} =>
       /\ closingKeys' \subseteq closingKeys \cup {last'.key[1]}
       /\ bulkClosingAll' => bulkClosingAll
  ]_vars

\* C4 witness: the exit animation of the only drawer finished and emptied
\* the authoritative stack.
SingleCloseNeverBulkWitness ==
  /\ last.op = "animationend"
  /\ last.rounds = 1
  /\ last.prevLen = 1
  /\ state.stack = <<>>
  /\ renderStack = <<>>
  /\ closingKeys = {}
  /\ ~bulkClosingAll

\* C5 (as claimed): open(k) while k is closing removes k from closingKeys,
\* and the end of the exit animation that follows does not remove the
\* re-opened k from the authoritative stack.
ReopenCancelsClose ==
  [][/\ (last'.op = "open" /\ last'.key[1] \in closingKeys)
          => last'.key[1] \notin closingKeys'
     /\ (/\ last.op = "open"
         /\ last.key[1] \in closingKeys
         /\ last'.op = "animationend"
         /\ last'.key[1] = last.key[1])
          => last'.key[1] \in KeysOf(state'.stack)
  ]_vars

\* C6 (as claimed): after closeWithAnimation(k) for an open, rendered drawer
\* k, k is eventually absent from the authoritative stack and from
\* renderStack, provided every drawer rendered as closing reports the end
\* of its exit animation.
AnimatedCloseEventuallyCloses ==
  \A k \in Keys :
    (/\ last.op = "closeWithAnimation"
     /\ last.key = Some(k)
     /\ k \in KeysOf(state.stack))
      ~> (k \notin KeysOf(state.stack) /\ k \notin KeysOf(renderStack))

\* C7: closeWithAnimation(k) leaves the authoritative stack, renderStack,
\* enteringKeys and bulkClosingAll unchanged and starts no notification; it
\* adds k to closingKeys and sets nextTopKey to the drawer below or leaves it.
CloseWithAnimationDefers ==
  [][last'.op = "closeWithAnimation" =>
       /\ state' = state
       /\ last'.rounds = 0
       /\ renderStack' = renderStack
       /\ managerState' = managerState
       /\ enteringKeys' = enteringKeys
       /\ bulkClosingAll' = bulkClosingAll
       /\ closingKeys' = closingKeys \cup {last'.key[1]}
       /\ \/ nextTopKey' = nextTopKey
          \/ /\ Len(renderStack) > 1
             /\ nextTopKey' = Some(renderStack[Len(renderStack) - 1].drawerKey)
  ]_vars

\* C7 witness: the top of two drawers was marked closing, the drawer below is
\* the next top, and both are still in the authoritative stack.
CloseWithAnimationDefersWitness ==
  /\ last.op = "closeWithAnimation"
  /\ Len(state.stack) = 2
  /\ renderStack = state.stack
  /\ last.key[1] = state.stack[2].drawerKey
  /\ closingKeys = {last.key[1]}
  /\ nextTopKey = Some(state.stack[1].drawerKey)

\* C8 (as claimed): when the end of the exit animation is reported for a
\* closing key k outside bulk mode, the manager's close(k) takes k out of the
\* authoritative stack, and afterwards k is absent from renderStack,
\* closingKeys and enteringKeys, and nextTopKey is absent.
FinalizeSingleClose ==
  [][(/\ last'.op = "animationend"
      /\ last'.event = Some(ExitFinished)
      /\ last'.key[1] \in closingKeys
      /\ ~bulkClosingAll) =>
       /\ last'.key[1] \notin KeysOf(state'.stack)
       /\ last'.key[1] \in KeysOf(state.stack) => last'.rounds = 1
       /\ last'.key[1] \notin KeysOf(renderStack')
       /\ last'.key[1] \notin closingKeys'
       /\ last'.key[1] \notin enteringKeys'
       /\ nextTopKey' = Undefined
  ]_vars

\* C25 (as claimed): whenever closeAll() empties a non-empty stack, also
\* while some drawer is already closing, every drawer rendered before the
\* call stays in renderStack and is marked closing.
CloseAllAlwaysAnimates ==
  [][(last'.op = "closeAll" /\ Len(state.stack) > 0) =>
       /\ renderStack' = renderStack
       /\ KeysOf(renderStack) \subseteq closingKeys'
  ]_vars

\* C26 (as claimed): the context's close(k), which is the manager's close(k),
\* for an open and rendered drawer k with a non-empty key keeps k rendered
\* and marks it closing, whatever the size of the stack and k's position.
ContextCloseAnimates ==
  [][(/\ last'.op = "close"
      /\ last'.key # Undefined
      /\ last'.key # Some("")
      /\ last'.key[1] \in KeysOf(state.stack)
      /\ last'.key[1] \in KeysOf(renderStack)) =>
       /\ last'.key[1] \in KeysOf(renderStack')
       /\ last'.key[1] \in closingKeys'
  ]_vars

\* C27: an animationend for drawer k changes neither the container nor the
\* authoritative stack when k is not closing, when the animation name does
\* not start with the exit prefix, or when the event comes from a
\* descendant of the panel; a change is made only by an exit-named event on
\* the panel of a closing drawer.
AnimationEndFiltering ==
  [][last'.op = "animationend" =>
       LET k        == last'.key[1]
           e        == last'.event[1]
           accepted == /\ k \in closingKeys
                       /\ startsWith(e.animationName, ExitPrefix)
                       /\ e.onPanel
       IN  /\ ~accepted => (containers' = containers /\ state' = state)
           /\ accepted => k \notin closingKeys'
  ]_vars

\* C27 witness: an exit-named animationend that bubbled up from a descendant
\* of a closing drawer's panel was delivered, and the drawer is still
\* rendered, closing and open.
AnimationEndFilteringWitness ==
  /\ last.op = "animationend"
  /\ last.event # Undefined
  /\ ~last.event[1].onPanel
  /\ startsWith(last.event[1].animationName, ExitPrefix)
  /\ last.key[1] \in closingKeys
  /\ last.key[1] \in KeysOf(renderStack)
  /\ last.key[1] \in KeysOf(state.stack)


\* C24: in headless mode closingKeys and enteringKeys stay empty, nextTopKey
\* stays absent, bulkClosingAll stays false and renderStack equals the
\* manager's stack after every step; the close callback for key k leaves k
\* out of the manager's stack; keydown, backdrop-click and animation-end
\* events change nothing.
HeadlessIsPassThrough ==
  [][/\ closingKeys' = {}
     /\ enteringKeys' = {}
     /\ nextTopKey' = Undefined
     /\ ~bulkClosingAll'
     /\ renderStack' = state'.stack
     /\ last'.op = "closeWithAnimation" =>
          last'.key[1] \notin KeysOf(state'.stack)
     /\ last'.op \in {"keydown", "backdropclick", "animationend"} =>
          (state' = state /\ containers' = containers)
  ]_vars

\* The close policy of an instance as the documentation of DrawerOptions
\* gives it: true, or a predicate that returns true for the instance.
PolicyAllows(instance, field) ==
  /\ field \in DOMAIN instance
  /\ \/ instance[field] = "true"
     \/ instance[field] = "isTitled" /\ "title" \in DOMAIN instance

\* C28: an Escape keydown adds the key of the last rendered drawer to
\* closingKeys when that drawer's closeOnEscapeKey resolves to true and
\* changes nothing otherwise, as does any other key; a backdrop click on a
\* drawer adds its key to closingKeys when its closeOnBackdropClick resolves
\* to true and changes nothing otherwise.
ClosePolicies ==
  [][/\ last'.op = "keydown" =>
          IF /\ last'.event[1].key = "Escape"
             /\ Len(renderStack) > 0
             /\ PolicyAllows(renderStack[Len(renderStack)], "closeOnEscapeKey")
            THEN /\ closingKeys' =
                      closingKeys \cup {renderStack[Len(renderStack)].drawerKey}
                 /\ renderStack' = renderStack
                 /\ state' = state
            ELSE state' = state /\ containers' = containers
     /\ last'.op = "backdropclick" =>
          IF PolicyAllows(Rendered(1, last'.key[1]), "closeOnBackdropClick")
            THEN /\ closingKeys' = closingKeys \cup {last'.key[1]}
                 /\ renderStack' = renderStack
                 /\ state' = state
            ELSE state' = state /\ containers' = containers
  ]_vars

\* An Escape keydown has just started the exit of the top drawer only, while
\* the drawer below it, which also closes on Escape, stays.
ClosePoliciesWitness ==
  /\ last.op = "keydown"
  /\ Len(renderStack) = 2
  /\ closingKeys = {renderStack[2].drawerKey}
  /\ "closeOnEscapeKey" \in DOMAIN renderStack[1]
  /\ renderStack[1].closeOnEscapeKey = "true"

\* C29: a drawer without a closeOnEscapeKey field closes on Escape when it
\* is the last rendered drawer, and a drawer without a closeOnBackdropClick
\* field closes on a click on its backdrop.
ClosePoliciesDefaultTrue ==
  [][/\ (/\ last'.op = "keydown"
         /\ last'.event[1].key = "Escape"
         /\ Len(renderStack) > 0
         /\ "closeOnEscapeKey" \notin DOMAIN renderStack[Len(renderStack)]) =>
          renderStack[Len(renderStack)].drawerKey \in closingKeys'
     /\ (/\ last'.op = "backdropclick"
         /\ "closeOnBackdropClick" \notin
              DOMAIN Rendered(1, last'.key[1])) =>
          last'.key[1] \in closingKeys'
  ]_vars

\* No exit animation is running in container i: none of its rendered drawers
\* is closing.
Settled(i) ==
  containers[i].closingKeys \cap KeysOf(containers[i].renderStack) = {}

\* C30: with two containers on one manager, whenever no exit animation is
\* running in either, each has an empty closingKeys, a false bulkClosingAll
\* and a renderStack equal to the manager's stack.
CoordinatorsDoNotInterfere ==
  (\A i \in DOMAIN containers : Settled(i)) =>
    \A i \in DOMAIN containers :
      /\ containers[i].closingKeys = {}
      /\ ~containers[i].bulkClosingAll
      /\ containers[i].renderStack = state.stack


(***************************************************************************)
(* Properties of the animated container's sets (Spec, CallbackSpec)        *)
(***************************************************************************)

\* C31: bulkClosingAll becomes true only in a closeAll() call on the
\* manager; no open, close, bringToTop or updateOptions call and no UI event
\* sets it.
BulkOnlyByCloseAll ==
  [][(~bulkClosingAll /\ bulkClosingAll') => last'.op = "closeAll"]_vars

\* C32: closeWithAnimation(k) sets nextTopKey to the key of the instance
\* just below k exactly when k is the last element of renderStack and
\* renderStack has at least two elements; otherwise (k not last, k alone,
\* k not rendered) it leaves nextTopKey unchanged.
NextTopOnClosingTop ==
  [][last'.op = "closeWithAnimation" =>
       LET k   == last'.key[1]
           len == Len(renderStack)
       IN  IF len >= 2 /\ renderStack[len].drawerKey = k
             THEN nextTopKey' = Some(renderStack[len - 1].drawerKey)
             ELSE nextTopKey' = nextTopKey
  ]_vars

\* closeWithAnimation on the top of two rendered drawers has just made the
\* one below the next top.
NextTopOnClosingTopWitness ==
  /\ last.op = "closeWithAnimation"
  /\ Len(renderStack) = 2
  /\ last.key = Some(renderStack[2].drawerKey)
  /\ nextTopKey = Some(renderStack[1].drawerKey)

\* C33: enteringKeys and closingKeys are disjoint in every reachable state
\* of an animated container.
EnteringClosingDisjoint == enteringKeys \cap closingKeys = {}


\* The keys of nextStack that are not in prevStack.
NewKeys(prevStack, nextStack) == KeysOf(nextStack) \ KeysOf(prevStack)

\* C34: on every notification that the listener does not take for a
\* close-all, enteringKeys gains exactly the keys of the new stack that were
\* not in the previous one, renderStack becomes the new stack, and a
\* nextTopKey that is not in the new stack is cleared; bringToTop,
\* updateOptions and an open of a key already present add nothing to
\* enteringKeys.
NonBulkReconciliation ==
  [][(last'.rounds > 0 /\ ~IsCloseAll(containers[1], state, state')) =>
       /\ NewKeys(state.stack, state'.stack) \subseteq enteringKeys'
       /\ enteringKeys' \ enteringKeys \subseteq
            NewKeys(state.stack, state'.stack)
       /\ renderStack' = state'.stack
       /\ (nextTopKey # Undefined
             /\ nextTopKey[1] \notin KeysOf(state'.stack)) =>
            nextTopKey' = Undefined
       /\ (\/ last'.op \in {"bringToTop", "updateOptions"}
           \/ /\ last'.op = "open"
              /\ last'.options[1].drawerKey \in KeysOf(state.stack)) =>
            enteringKeys' = enteringKeys
  ]_vars

\* C35: when the enter animation of a drawer that is open and not closing
\* reports finished, the drawer leaves enteringKeys.
EnteringClearedOnEntry ==
  [][(/\ last'.op = "animationend"
      /\ ~startsWith(last'.event[1].animationName, ExitPrefix)
      /\ last'.event[1].onPanel
      /\ last'.key[1] \in enteringKeys
      /\ last'.key[1] \notin closingKeys) =>
       last'.key[1] \notin enteringKeys'
  ]_vars

\* C36: while bulkClosingAll is false renderStack is the manager's stack;
\* renderStack differs from it only while bulkClosingAll is true and
\* closingKeys is not empty.
RenderStackLagsOnlyInBulk ==
  /\ ~bulkClosingAll => renderStack = state.stack
  /\ renderStack # state.stack => (bulkClosingAll /\ closingKeys # {})

\* The exit animation of a single close has just ended: the manager removed
\* the drawer, renderStack followed at once and other drawers stay rendered.
RenderStackLagsOnlyInBulkWitness ==
  /\ last.op = "animationend"
  /\ last.rounds > 0
  /\ ~bulkClosingAll
  /\ Len(renderStack) > 0
  /\ Len(renderStack) < last.prevLen

\* C37: every key in closingKeys is the key of an instance in renderStack.
ClosingKeysAreRendered == closingKeys \subseteq KeysOf(renderStack)

\* C38: while bulkClosingAll is true the manager's stack is empty.
BulkImpliesEmptyStack == bulkClosingAll => Len(state.stack) = 0

\* C39: right after open(k) for a key k that was not in the manager's stack,
\* k is in renderStack and not in closingKeys.
FreshDrawerNotClosing ==
  [][(/\ last'.op = "open"
      /\ last'.options[1].drawerKey \notin KeysOf(state.stack)) =>
       /\ last'.options[1].drawerKey \in KeysOf(renderStack')
       /\ last'.options[1].drawerKey \notin closingKeys'
  ]_vars

\* render: isTopLike = key === topKey || key === nextTopKey.value, where
\* topKey is the key of the last rendered instance.
isTopLike(c, key) ==
  \/ key = c.renderStack[Len(c.renderStack)].drawerKey
  \/ c.nextTopKey = Some(key)

\* The rendered drawers that carry data-top.
TopLike(c) == {k \in KeysOf(c.renderStack) : isTopLike(c, k)}

\* C40: a nextTopKey that is set is the key of an instance in renderStack;
\* at most two rendered drawers are marked top, and exactly one when
\* nextTopKey is absent and renderStack is not empty.
NextTopIsRendered ==
  /\ nextTopKey # Undefined => nextTopKey[1] \in KeysOf(renderStack)
  /\ Cardinality(TopLike(containers[1])) <= 2
  /\ (nextTopKey = Undefined /\ Len(renderStack) > 0) =>
       Cardinality(TopLike(containers[1])) = 1

====
